---- MODULE Spec2Model ----
(***************************************************************************)
(* Model of the OrbX protocol-mimicry tester (src/orbx_protocol_tester.py). *)
(* One tester object runs the probe battery over its catalog of mimicry     *)
(* profiles, prints a summary and writes a JSON report.                     *)
(*                                                                          *)
(* Abstractions.  Round-trip times are integers in microseconds (the code   *)
(* holds float milliseconds).  A response's headers are a set of words, a   *)
(* word being a lower-case text and a flag telling whether the server sent  *)
(* it capitalised; the substring test of the header probe is membership of  *)
(* the lowered word.  Console output, the timestamps, and the catalog's     *)
(* user agents, regions and descriptions are not modelled.  The history     *)
(* variables calls, probeLog and lastProbe record what the probes did; the  *)
(* program does not read them.                                              *)
(***************************************************************************)
EXTENDS Integers, Sequences, FiniteSets, TLC

VARIABLES
    protocols,   \* self.protocols: the catalog, in declaration order
    server,      \* per profile, how the remote endpoint behaves during the run
    results,     \* self.results
    pc,          \* position of main(): "run", "summary", "save", "done", "crashed"
    idx,         \* run_all_tests: 1-based index of the profile being tested
    phase,       \* test_protocol: the probe that runs next, or "return"
    result,      \* test_protocol: <<>> or <<the ProtocolTestResult being filled>>
    summary,     \* <<>> or <<what print_summary computed>>
    report,      \* <<>> or <<the document save_report wrote>>
    calls,       \* history: the probe operations invoked for the current profile
    probeLog,    \* history: calls of every finalized profile, in order
    lastProbe,   \* history: <<>> or <<the latest probe operation, its input, its return>>
    runs,        \* history: the invocations of run_all_tests started on this tester
    jwt,         \* verify_mimicry.py: JWT_TOKEN
    vpc,         \* verify_mimicry.py: position of its main()
    vresults,    \* verify_mimicry.py: results, the <<name, status, message>> of each check
    vsent        \* history: the requests verify_mimicry.py has issued

\* The state of the verification script, a program of its own
verifyVars == <<jwt, vpc, vresults, vsent>>

vars == <<protocols, server, results, pc, idx, phase, result, summary, report,
          calls, probeLog, lastProbe, runs, verifyVars>>

----------------------------------------------------------------------------
(* Bounds of the model *)

\* Longest catalog tested against a server that may answer anything.
MaxProtocols == 1

\* Longest catalog prefix tested against servers that may also be down.
MaxStubProtocols == 3

\* Most invocations of run_all_tests on one tester.
MaxRuns == 2

----------------------------------------------------------------------------
(* The catalog *)

Profile(n, e, h) == [name |-> n, endpoint |-> e, expected_headers |-> h]

Catalog ==
    << Profile("Microsoft Teams", "/teams/messages", <<"teams", "microsoft", "skype">>),
       Profile("Shaparak Banking", "/shaparak/transaction", <<"shaparak", "bank">>),
       Profile("DNS over HTTPS", "/dns-query", <<"dns", "application/dns-message">>),
       Profile("Google Workspace", "/google/", <<"google", "gws", "drive">>),
       Profile("Zoom", "/zoom/", <<"zoom">>),
       Profile("FaceTime", "/facetime/", <<"facetime", "apple">>),
       Profile("VK", "/vk/", <<"vk", "vkontakte">>),
       Profile("Yandex", "/yandex/", <<"yandex">>),
       Profile("WeChat", "/wechat/", <<"wechat", "tencent">>) >>

\* range(5) of test_traffic_variation
VariationReps == 5

----------------------------------------------------------------------------
(* The remote endpoint: what one HTTP request can end in *)

\* requests.exceptions the transport raises: timeout, refused connection, TLS failure
Exceptions == {"Timeout", "ConnectionError", "SSLError"}

Statuses == {200, 201, 204, 404, 500}

BodyLengths == {0, 10}

Word(t, c) == [text |-> t, caps |-> c]

Range(s) == {s[k] : k \in DOMAIN s}

\* Header sets a server may answer profile p with: none, a generic one, or one
\* of the profile's tokens in either case.
HeaderSets(p) ==
    {{}, {Word("nginx", FALSE)}}
      \cup {{Word(t, c)} : t \in Range(p.expected_headers), c \in BOOLEAN}

Raise(e) == [kind |-> "raise", exc |-> e]

Response(s, n, h, t) ==
    [kind |-> "response", status_code |-> s, content_len |-> n, headers |-> h,
     elapsed |-> t]

\* Scenario servers: "ok" answers every request of the profile 200 with a body
\* and the profile's own header, "notfound" answers every request 404, "down"
\* refuses every connection.
OkResponse(p, n, t) == Response(200, n, {Word(p.expected_headers[1], TRUE)}, t)

NotFoundResponse == Response(404, 0, {}, 5000)

Outcomes(p, behaviour) ==
    CASE behaviour = "ok" -> {OkResponse(p, 10, 5000)}
      [] behaviour = "notfound" -> {NotFoundResponse}
      [] behaviour = "down" -> {Raise("ConnectionError")}
      [] OTHER ->
            {Raise(e) : e \in Exceptions}
              \cup {Response(s, n, h, 5000) :
                        s \in Statuses, n \in BodyLengths, h \in HeaderSets(p)}

\* Response lengths and round-trip times of the five variation requests.
SizeTraces ==
    { <<10, 10, 10, 10, 10>>, <<10, 20, 10, 20, 10>>, <<10, 20, 10, 30, 10>> }

TimeTraces ==
    { <<5000, 5000, 5000, 5000, 5000>>, <<5000, 5100, 5000, 5100, 5000>>,
      <<5000, 5100, 5200, 5000, 5100>>, <<5000, 6000, 7000, 5000, 6000>> }

\* The outcomes of the variation requests: request failAt raises exc (0: none does).
Trace(sizes, times, failAt, exc) ==
    [k \in 1..VariationReps |->
        IF k = failAt THEN Raise(exc)
        ELSE Response(200, sizes[k], {}, times[k])]

\* The stub server of the spec's scenario A: lengths 10,20,10,30,10, constant latency.
ScenarioTrace ==
    Trace(<<10, 20, 10, 30, 10>>, <<5000, 5000, 5000, 5000, 5000>>, 0, "Timeout")

\* A run of requests that all complete, or one whose request failAt raises after
\* the earlier ones showed three lengths and three latencies.
Traces(behaviour) ==
    CASE behaviour = "ok" -> {ScenarioTrace}
      [] behaviour = "notfound" -> {[k \in 1..VariationReps |-> NotFoundResponse]}
      [] behaviour = "down" -> {[k \in 1..VariationReps |-> Raise("ConnectionError")]}
      [] OTHER ->
            {Trace(s, t, 0, "Timeout") : s \in SizeTraces, t \in TimeTraces}
              \cup {Trace(<<10, 20, 30, 10, 20>>, <<5000, 6000, 7000, 5000, 6000>>, f, e) :
                        f \in 1..VariationReps, e \in Exceptions}

----------------------------------------------------------------------------
(* The probe operations, as functions of what the requests end in *)

SuccessStatus(s) == s \in {200, 201, 204}

\* except requests.exceptions.Timeout / RequestException: every transport error
CaughtByConnectivity == Exceptions

\* <<can_connect, status_code, response_time_ms>>, or propagates the exception
test_basic_connectivity(out) ==
    IF out.kind = "raise"
    THEN IF out.exc \in CaughtByConnectivity
         THEN [raised |-> FALSE, ret |-> <<FALSE, 0, 0>>]
         ELSE [raised |-> TRUE, ret |-> <<>>]
    ELSE [raised |-> FALSE,
          ret |-> <<SuccessStatus(out.status_code), out.status_code, out.elapsed>>]

\* A transmission probe that reads the body of successful responses only.
test_data_transmission_gated(out) ==
    IF out.kind = "raise"
    THEN [raised |-> FALSE, ret |-> <<FALSE, FALSE>>]
    ELSE [raised |-> FALSE,
          ret |-> <<SuccessStatus(out.status_code),
                    SuccessStatus(out.status_code) /\ out.content_len > 0>>]

\* <<can_send, can_receive>>
test_data_transmission(out) ==
    IF out.kind = "raise"
    THEN [raised |-> FALSE, ret |-> <<FALSE, FALSE>>]
    ELSE [raised |-> FALSE,
          ret |-> <<SuccessStatus(out.status_code), out.content_len > 0>>]

Lower(w) == [w EXCEPT !.caps = FALSE]

\* The header text as the server sent it, capitals kept.
HeaderTextAsSent(headers) == headers

\* str(response.headers).lower()
HeaderText(headers) == {Lower(w) : w \in headers}

\* <<headers_authentic>>
test_header_authenticity(p, out) ==
    IF out.kind = "raise"
    THEN [raised |-> FALSE, ret |-> <<FALSE>>]
    ELSE IF \E k \in DOMAIN p.expected_headers :
                Word(p.expected_headers[k], FALSE) \in HeaderText(out.headers)
         THEN [raised |-> FALSE, ret |-> <<TRUE>>]
         ELSE [raised |-> FALSE, ret |-> <<SuccessStatus(out.status_code)>>]

\* The requests of the variation loop that are issued: all of them, or those up
\* to the first that raises.
RECURSIVE Issued(_, _)
Issued(trace, k) ==
    IF k > Len(trace) THEN trace
    ELSE IF trace[k].kind = "raise" THEN SubSeq(trace, 1, k)
    ELSE Issued(trace, k + 1)

\* len(set(xs))
Distinct(xs) == Cardinality(Range(xs))

\* A variation probe whose try sits inside the loop: a request that raises ends
\* the loop and the flags are computed from the responses gathered so far.
test_traffic_variation_partial(trace) ==
    LET issued == Issued(trace, 1)
        failed == issued # <<>> /\ issued[Len(issued)].kind = "raise"
        got == IF failed THEN SubSeq(issued, 1, Len(issued) - 1) ELSE issued
        response_times == [k \in DOMAIN got |-> got[k].elapsed]
        packet_sizes == [k \in DOMAIN got |-> got[k].content_len]
    IN  [raised |-> FALSE,
         ret |-> <<Distinct(packet_sizes) > 2, Distinct(response_times) > 2>>,
         times |-> response_times, sizes |-> packet_sizes,
         requests |-> Len(issued)]

\* <<size_variation, timing_variation>>; times and sizes are the lists the loop built
test_traffic_variation(trace) ==
    LET issued == Issued(trace, 1)
        failed == issued # <<>> /\ issued[Len(issued)].kind = "raise"
        response_times == [k \in DOMAIN trace |-> trace[k].elapsed]
        packet_sizes == [k \in DOMAIN trace |-> trace[k].content_len]
    IN  IF failed
        THEN [raised |-> FALSE, ret |-> <<FALSE, FALSE>>,
              times |-> <<>>, sizes |-> <<>>, requests |-> Len(issued)]
        ELSE [raised |-> FALSE,
              ret |-> <<Distinct(packet_sizes) > 2, Distinct(response_times) > 2>>,
              times |-> response_times, sizes |-> packet_sizes,
              requests |-> Len(issued)]

----------------------------------------------------------------------------
(* test_protocol *)

None == <<>>

\* A result whose error message starts as a placeholder text instead of None.
NewResultWithMessage(p) ==
    [protocol_name |-> p.name, endpoint |-> p.endpoint, http_status |-> 0,
     response_time_ms |-> 0, can_connect |-> FALSE, can_send_data |-> FALSE,
     can_receive_data |-> FALSE, headers_authentic |-> FALSE,
     packet_size_variation |-> FALSE, timing_variation |-> FALSE,
     error_message |-> <<"pending">>]

NewResult(p) ==
    [protocol_name |-> p.name, endpoint |-> p.endpoint, http_status |-> 0,
     response_time_ms |-> 0, can_connect |-> FALSE, can_send_data |-> FALSE,
     can_receive_data |-> FALSE, headers_authentic |-> FALSE,
     packet_size_variation |-> FALSE, timing_variation |-> FALSE,
     error_message |-> None]

\* A runner that prints the failure and attaches no message.
NoFailureMessage(status_code) == None

\* f"Connection failed with HTTP {status_code}"
ConnectionFailedMessage(status_code) == <<"Connection failed with HTTP", status_code>>

\* A battery without the early return after a failed connectivity probe.
AfterConnectivityNoReturn(can_connect) == "transmission"

\* A battery that gives up when nothing could be sent.
AfterTransmissionShortCircuit(can_send, can_receive) ==
    IF can_send THEN "headers" ELSE "return"

\* The probe that follows each probe of the battery
AfterConnectivity(can_connect) == IF can_connect THEN "transmission" ELSE "return"

AfterTransmission(can_send, can_receive) == "headers"

AfterHeaders(headers_ok) == "variation"

Probing == pc = "run" /\ idx <= Len(protocols)

Crash ==
    /\ pc' = "crashed"
    /\ UNCHANGED <<results, idx, phase, result, summary, report, calls, probeLog>>

Logged(op, failed) == Append(calls, [op |-> op, failed |-> failed])

\* What the history keeps of a request's outcome (0, no headers: it raised)
StatusOf(out) == IF out.kind = "raise" THEN 0 ELSE out.status_code
LengthOf(out) == IF out.kind = "raise" THEN 0 ELSE out.content_len
HeadersOf(out) == IF out.kind = "raise" THEN {} ELSE out.headers

TestConnectivity ==
    /\ Probing /\ phase = "connectivity"
    /\ UNCHANGED <<runs, verifyVars>>
    /\ \E out \in Outcomes(protocols[idx], server[idx]) :
        LET r == test_basic_connectivity(out) IN
        /\ lastProbe' = << [op |-> "connectivity", exc |-> out.kind = "raise",
                            at |-> 0, raised |-> r.raised, ret |-> r.ret] >>
        /\ IF r.raised THEN Crash
           ELSE /\ result' =
                     LET probed == [NewResult(protocols[idx]) EXCEPT
                                       !.can_connect = r.ret[1],
                                       !.http_status = r.ret[2],
                                       !.response_time_ms = r.ret[3]]
                     IN  IF r.ret[1] THEN <<probed>>
                         ELSE << [probed EXCEPT !.error_message =
                                                  ConnectionFailedMessage(r.ret[2])] >>
                /\ phase' = AfterConnectivity(r.ret[1])
                /\ calls' = Logged("connectivity", ~r.ret[1])
                /\ UNCHANGED <<results, pc, idx, summary, report, probeLog>>
    /\ UNCHANGED <<protocols, server>>

TestTransmission ==
    /\ Probing /\ phase = "transmission"
    /\ UNCHANGED <<runs, verifyVars>>
    /\ \E out \in Outcomes(protocols[idx], server[idx]) :
        LET r == test_data_transmission(out) IN
        /\ lastProbe' = << [op |-> "transmission", exc |-> out.kind = "raise",
                            at |-> 0, raised |-> r.raised, ret |-> r.ret,
                            status |-> StatusOf(out), content_len |-> LengthOf(out)] >>
        /\ IF r.raised THEN Crash
           ELSE /\ result' = << [result[1] EXCEPT !.can_send_data = r.ret[1],
                                                  !.can_receive_data = r.ret[2]] >>
                /\ phase' = AfterTransmission(r.ret[1], r.ret[2])
                /\ calls' = Logged("transmission", ~r.ret[1])
                /\ UNCHANGED <<results, pc, idx, summary, report, probeLog>>
    /\ UNCHANGED <<protocols, server>>

TestHeaders ==
    /\ Probing /\ phase = "headers"
    /\ UNCHANGED <<runs, verifyVars>>
    /\ \E out \in Outcomes(protocols[idx], server[idx]) :
        LET r == test_header_authenticity(protocols[idx], out) IN
        /\ lastProbe' = << [op |-> "headers", exc |-> out.kind = "raise",
                            at |-> 0, raised |-> r.raised, ret |-> r.ret,
                            status |-> StatusOf(out), headers |-> HeadersOf(out)] >>
        /\ IF r.raised THEN Crash
           ELSE /\ result' = << [result[1] EXCEPT !.headers_authentic = r.ret[1]] >>
                /\ phase' = AfterHeaders(r.ret[1])
                /\ calls' = Logged("headers", ~r.ret[1])
                /\ UNCHANGED <<results, pc, idx, summary, report, probeLog>>
    /\ UNCHANGED <<protocols, server>>

TestVariation ==
    /\ Probing /\ phase = "variation"
    /\ UNCHANGED <<runs, verifyVars>>
    /\ \E trace \in Traces(server[idx]) :
        LET r == test_traffic_variation(trace) IN
        /\ lastProbe' = << [op |-> "variation", exc |-> r.requests < Len(trace),
                            at |-> IF r.requests < Len(trace) THEN r.requests ELSE 0,
                            raised |-> r.raised, ret |-> r.ret,
                            times |-> r.times, sizes |-> r.sizes] >>
        /\ IF r.raised THEN Crash
           ELSE /\ result' = << [result[1] EXCEPT !.packet_size_variation = r.ret[1],
                                                  !.timing_variation = r.ret[2]] >>
                /\ phase' = "return"
                /\ calls' = Logged("variation", r.requests < Len(trace))
                /\ UNCHANGED <<results, pc, idx, summary, report, probeLog>>
    /\ UNCHANGED <<protocols, server>>

----------------------------------------------------------------------------
(* run_all_tests *)

\* self.results.insert(0, result)
ResultsPrepend(rs, r) == <<r>> \o rs

\* self.results.append(result)
ResultsAppend(rs, r) == Append(rs, r)

\* One turn of the loop's tail: test_protocol returned, its result is appended.
AppendResult ==
    /\ Probing /\ phase = "return"
    /\ UNCHANGED <<runs, verifyVars>>
    /\ results' = ResultsAppend(results, result[1])
    /\ probeLog' = Append(probeLog, calls)
    /\ idx' = idx + 1
    /\ phase' = "connectivity"
    /\ result' = <<>>
    /\ calls' = <<>>
    /\ lastProbe' = <<>>
    /\ UNCHANGED <<protocols, server, pc, summary, report>>

\* The loop is exhausted: run_all_tests returns self.results to main().
ReturnResults ==
    /\ pc = "run" /\ idx > Len(protocols)
    /\ UNCHANGED <<runs, verifyVars>>
    /\ pc' = "summary"
    /\ UNCHANGED <<protocols, server, results, idx, phase, result, summary, report,
                   calls, probeLog, lastProbe>>

----------------------------------------------------------------------------
(* print_summary *)

BoolInt(b) == IF b THEN 1 ELSE 0

\* sum(xs), left to right
RECURSIVE Sum(_)
Sum(xs) == IF xs = <<>> THEN 0 ELSE xs[1] + Sum(Tail(xs))

IsWorking(r) == r.can_connect /\ r.can_send_data

\* A count of the reachable profiles, whether or not they can send.
connected_protocols(rs) == Len(SelectSeq(rs, LAMBDA r : r.can_connect))

\* sum(1 for r in self.results if r.can_connect and r.can_send_data)
working_protocols(rs) == Len(SelectSeq(rs, IsWorking))

\* A score over the four flags of the quality analysis.
four_flag_score(r) ==
    Sum(<< BoolInt(r.can_connect), BoolInt(r.can_send_data),
           BoolInt(r.headers_authentic), BoolInt(r.packet_size_variation) >>)

mimicry_score(r) ==
    Sum(<< BoolInt(r.can_connect), BoolInt(r.can_send_data),
           BoolInt(r.can_receive_data), BoolInt(r.headers_authentic),
           BoolInt(r.packet_size_variation), BoolInt(r.timing_variation) >>)

\* A quality sum over all six flags.
six_flag_quality_sum(r) ==
    Sum(<< BoolInt(r.can_connect), BoolInt(r.can_send_data),
           BoolInt(r.can_receive_data), BoolInt(r.headers_authentic),
           BoolInt(r.packet_size_variation), BoolInt(r.timing_variation) >>)

\* The four-flag sum of the quality analysis
quality_sum(r) ==
    Sum(<< BoolInt(r.can_connect), BoolInt(r.can_send_data),
           BoolInt(r.headers_authentic), BoolInt(r.packet_size_variation) >>)

IsExcellent(r) == quality_sum(r) >= 4
IsGood(r) == 2 <= quality_sum(r) /\ quality_sum(r) < 4
IsPoor(r) == quality_sum(r) < 2
IsConnected(r) == r.can_connect

\* A summary that averages the latencies whatever the number of working profiles.
NoLatencyGuard(working) == TRUE

\* if working_protocols > 0: the average latency is computed
LatencyGuard(working) == working > 0

\* What print_summary computes; raised when statistics.mean gets an empty list.
print_summary(rs) ==
    LET total == Len(rs)
        working == working_protocols(rs)
        connected == SelectSeq(rs, IsConnected)
        latencies == [k \in DOMAIN connected |-> connected[k].response_time_ms]
        wantsMean == LatencyGuard(working)
    IN  [raised |-> wantsMean /\ latencies = <<>>,
         total_protocols |-> total,
         working_protocols |-> working,
         avg_latency |-> IF wantsMean /\ latencies # <<>>
                         THEN << Sum(latencies) \div Len(latencies) >> ELSE None,
         scores |-> [k \in DOMAIN rs |-> mimicry_score(rs[k])],
         excellent |-> Len(SelectSeq(rs, IsExcellent)),
         good |-> Len(SelectSeq(rs, IsGood)),
         poor |-> Len(SelectSeq(rs, IsPoor)),
         success_rate |-> IF total > 0 THEN (working * 100) \div total ELSE 0]

PrintSummary ==
    /\ pc = "summary"
    /\ UNCHANGED <<runs, verifyVars>>
    /\ LET s == print_summary(results) IN
        IF s.raised
        THEN pc' = "crashed" /\ UNCHANGED summary
        ELSE pc' = "save" /\ summary' = <<s>>
    /\ UNCHANGED <<protocols, server, results, idx, phase, result, report,
                   calls, probeLog, lastProbe>>

----------------------------------------------------------------------------
(* save_report *)

\* dataclasses.asdict: every field of the result, by name
to_dict(r) == [f \in DOMAIN r |-> r[f]]

save_report(rs) ==
    [test_metadata |->
        [total_protocols |-> Len(rs), working_protocols |-> working_protocols(rs)],
     results |-> [k \in DOMAIN rs |-> to_dict(rs[k])]]

SaveReport ==
    /\ pc = "save"
    /\ UNCHANGED <<runs, verifyVars>>
    /\ report' = << save_report(results) >>
    /\ pc' = "done"
    /\ UNCHANGED <<protocols, server, results, idx, phase, result, summary,
                   calls, probeLog, lastProbe>>

----------------------------------------------------------------------------
(* The specification *)

Prefix(n) == SubSeq(Catalog, 1, n)

\* A fresh tester about to run: a catalog of at most MaxProtocols profiles whose
\* server may answer anything, a catalog of at most MaxStubProtocols profiles
\* against scenario servers, or the full catalog against servers that answer.
Init ==
    /\ \/ \E n \in 0..MaxProtocols :
            /\ protocols = Prefix(n)
            /\ server = [i \in 1..n |-> "any"]
       \/ \E n \in 1..MaxStubProtocols :
            /\ protocols = Prefix(n)
            /\ server \in [1..n -> {"ok", "notfound", "down"}]
       \/ /\ protocols = Catalog
          /\ server \in [1..Len(Catalog) -> {"ok", "notfound"}]
    /\ results = <<>>
    /\ pc = "run"
    /\ idx = 1
    /\ phase = "connectivity"
    /\ result = <<>>
    /\ summary = <<>>
    /\ report = <<>>
    /\ calls = <<>>
    /\ probeLog = <<>>
    /\ lastProbe = <<>>
    /\ runs = 1
    /\ jwt = ""
    /\ vpc = "off"
    /\ vresults = <<>>
    /\ vsent = 0

Next ==
    \/ TestConnectivity
    \/ TestTransmission
    \/ TestHeaders
    \/ TestVariation
    \/ AppendResult
    \/ ReturnResults
    \/ PrintSummary
    \/ SaveReport

Spec == Init /\ [][Next]_vars

\* main() is one sequential thread and every request has a timeout: a step that
\* can be taken is taken.
FairSpec == Init /\ [][Next]_vars /\ WF_vars(Next)

----------------------------------------------------------------------------
(* A caller that invokes run_all_tests again on the same tester *)

\* run_all_tests has returned and is called once more: the loop starts over
\* the catalog, self.results is what the earlier invocation left (it is
\* assigned in __init__ only).
RunAgain ==
    /\ pc \in {"summary", "save", "done"}
    /\ runs < MaxRuns
    /\ runs' = runs + 1
    /\ pc' = "run"
    /\ idx' = 1
    /\ phase' = "connectivity"
    /\ UNCHANGED <<protocols, server, results, result, summary, report, calls,
                   probeLog, lastProbe, verifyVars>>

\* Testers whose servers are the scenario servers
RerunInit == Init /\ \A i \in DOMAIN server : server[i] # "any"

RerunNext == Next \/ RunAgain

RerunSpec == RerunInit /\ [][RerunNext]_vars

----------------------------------------------------------------------------
(* An operator who interrupts the run *)

\* KeyboardInterrupt while run_all_tests is in a probe or in the sleep between
\* two profiles. No probe catches it (they catch Exception and
\* RequestException, which it is not), run_all_tests and main() have no
\* try/finally: it leaves main() and the process ends where it stands.
ExternalAbort ==
    /\ pc = "run"
    /\ pc' = "aborted"
    /\ UNCHANGED <<protocols, server, results, idx, phase, result, summary,
                   report, calls, probeLog, lastProbe, runs, verifyVars>>

AbortNext == Next \/ ExternalAbort

AbortSpec == Init /\ [][AbortNext]_vars

----------------------------------------------------------------------------
(* verify_mimicry.py: four per-protocol checks and a summary *)

\* Values of the module constant JWT_TOKEN: as shipped (empty), the placeholder
\* main() looks for, and a token the operator pasted in.
Tokens == {"", "YOUR_JWT_TOKEN_HERE", "eyJ.access.token"}

\* What the one request of a check can end in
VerifyOutcomes ==
    {Raise(e) : e \in Exceptions} \cup {Response(s, 0, {}, 5000) : s \in Statuses}

\* if response.status_code == 200
VerifyPass(status_code) == status_code = 200

\* The message of a check whose request raised: test_teams names SSL and
\* connection errors, every check falls back to str(e).
RaisedMessage(name, exc) ==
    IF name = "Teams" /\ exc = "SSLError" THEN <<"SSL Error">>
    ELSE IF name = "Teams" /\ exc = "ConnectionError" THEN <<"Connection Error">>
    ELSE <<"str(e)", exc>>

\* test_teams, test_google, test_shaparak, test_doh: <<status, message>>
verify_check(name, out) ==
    IF out.kind = "raise" THEN <<0, RaisedMessage(name, out.exc)>>
    ELSE IF VerifyPass(out.status_code) THEN <<out.status_code, <<"Success">> >>
    ELSE <<out.status_code, <<"HTTP", out.status_code>> >>

\* if JWT_TOKEN == "YOUR_JWT_TOKEN_HERE": print the error and return
TokenRejected(token) == token = "YOUR_JWT_TOKEN_HERE"

testerVars == <<protocols, server, results, pc, idx, phase, result, summary, report,
                calls, probeLog, lastProbe, runs>>

\* main() up to the first check: the token guard, then the ProtocolTester.
VerifyStart ==
    /\ vpc = "start"
    /\ vpc' = IF TokenRejected(jwt) THEN "returned" ELSE "Teams"
    /\ UNCHANGED <<jwt, vresults, vsent, testerVars>>

\* results[name] = tester.test_<name>()
VerifyCheck(name, next) ==
    /\ vpc = name
    /\ \E out \in VerifyOutcomes :
        LET r == verify_check(name, out) IN
        vresults' = Append(vresults, [name |-> name, status |-> r[1], message |-> r[2],
                                      authorization |-> <<"Bearer", jwt>>])
    /\ vsent' = vsent + 1
    /\ vpc' = next
    /\ UNCHANGED <<jwt, testerVars>>

VerifyTeams == VerifyCheck("Teams", "Google")
VerifyGoogle == VerifyCheck("Google", "Shaparak")
VerifyShaparak == VerifyCheck("Shaparak", "DoH")
VerifyDoh == VerifyCheck("DoH", "summary")

\* passed: the checks whose status is 200
verify_passed(rs) == Len(SelectSeq(rs, LAMBDA r : r.status = 200))

\* The summary loop and the success rate
VerifySummary ==
    /\ vpc = "summary"
    /\ vpc' = "done"
    /\ UNCHANGED <<jwt, vresults, vsent, testerVars>>

VerifyInit ==
    /\ jwt \in Tokens
    /\ vpc = "start"
    /\ vresults = <<>>
    /\ vsent = 0
    /\ protocols = Catalog
    /\ server = [i \in 1..Len(Catalog) |-> "ok"]
    /\ results = <<>>
    /\ pc = "off"
    /\ idx = 1
    /\ phase = "connectivity"
    /\ result = <<>>
    /\ summary = <<>>
    /\ report = <<>>
    /\ calls = <<>>
    /\ probeLog = <<>>
    /\ lastProbe = <<>>
    /\ runs = 0

VerifyNext ==
    \/ VerifyStart
    \/ VerifyTeams
    \/ VerifyGoogle
    \/ VerifyShaparak
    \/ VerifyDoh
    \/ VerifySummary

\* One run of the verification script
VerifySpec == VerifyInit /\ [][VerifyNext]_vars

----------------------------------------------------------------------------
(* Properties *)

SixFlags ==
    {"can_connect", "can_send_data", "can_receive_data", "headers_authentic",
     "packet_size_variation", "timing_variation"}

DownstreamFlags == SixFlags \ {"can_connect"}

ResultFields ==
    SixFlags \cup {"protocol_name", "endpoint", "http_status", "response_time_ms",
                   "error_message"}

\* The probe operations a call log names, in call order
Ops(log) == [k \in DOMAIN log |-> log[k].op]

Battery == <<"connectivity", "transmission", "headers", "variation">>

\* run_all_tests has returned to main()
Returned == pc \in {"summary", "save", "done"}

\* C1: a run of a fresh tester ends with exactly one result per catalog profile,
\* the i-th result carrying the name and the endpoint of the i-th profile; while
\* the run lasts the results are those of the profiles already left behind.
C1_OneResultPerProfileInOrder ==
    /\ Len(results) <= Len(protocols)
    /\ pc = "run" => Len(results) = idx - 1
    /\ pc # "run" => Len(results) = Len(protocols)
    /\ \A i \in DOMAIN results :
        /\ results[i].protocol_name = protocols[i].name
        /\ results[i].endpoint = protocols[i].endpoint

\* The full catalog was run, some profiles reachable and some not.
C1_Witness ==
    /\ Returned
    /\ Len(results) = 9
    /\ results[9].protocol_name = "WeChat"
    /\ ~results[1].can_connect
    /\ results[2].can_connect

AllDownstreamFalse(r) == \A f \in DownstreamFlags : ~r[f]

\* C2: a profile whose connectivity probe reports unreachable gets no further
\* probe, its result has every downstream flag false and a mimicry score of 0,
\* and the battery is over: the runner's next step appends the result and moves
\* to the next profile.
C2_UnreachableShortCircuits ==
    /\ \A i \in DOMAIN results :
        ~results[i].can_connect =>
            /\ Ops(probeLog[i]) = <<"connectivity">>
            /\ AllDownstreamFalse(results[i])
            /\ mimicry_score(results[i]) = 0
    /\ (result # <<>> /\ ~result[1].can_connect) =>
            /\ Ops(calls) = <<"connectivity">>
            /\ AllDownstreamFalse(result[1])
            /\ phase = "return"
            /\ ENABLED AppendResult

\* A profile answered 404 was finalized and the next profile was probed and finalized.
C2_Witness ==
    /\ Len(results) >= 2
    /\ ~results[1].can_connect
    /\ results[1].http_status = 404
    /\ Ops(probeLog[1]) = <<"connectivity">>
    /\ results[2].can_connect

\* C3: a profile whose connectivity probe reports reachable gets the transmission,
\* header and variation probes once each, in that order, whatever they return;
\* during the battery the calls made so far are the battery's first ones.
C3_AllProbesOnceInOrder ==
    /\ \A i \in DOMAIN results :
        results[i].can_connect => Ops(probeLog[i]) = Battery
    /\ (result # <<>> /\ result[1].can_connect) =>
        /\ phase = "transmission" => Ops(calls) = SubSeq(Battery, 1, 1)
        /\ phase = "headers" => Ops(calls) = SubSeq(Battery, 1, 2)
        /\ phase = "variation" => Ops(calls) = SubSeq(Battery, 1, 3)
        /\ phase = "return" => Ops(calls) = Battery

\* A reachable profile whose transmission and header probes both failed was
\* still given all four probes.
C3_Witness ==
    /\ Len(results) >= 1
    /\ results[1].can_connect
    /\ ~results[1].can_send_data
    /\ ~results[1].headers_authentic
    /\ probeLog[1][2].failed
    /\ probeLog[1][3].failed
    /\ Ops(probeLog[1]) = Battery

AllNegative(op) ==
    CASE op = "connectivity" -> <<FALSE, 0, 0>>
      [] op = "transmission" -> <<FALSE, FALSE>>
      [] op = "headers" -> <<FALSE>>
      [] op = "variation" -> <<FALSE, FALSE>>

\* C4: a probe operation one of whose requests raised a transport error (in the
\* variation probe: any of its repetitions) returned its all-negative outcome,
\* the result holds those values, and no exception reached the runner.
C4_ProbesFailClosed ==
    /\ pc # "crashed"
    /\ (lastProbe # <<>> /\ lastProbe[1].exc) =>
        /\ ~lastProbe[1].raised
        /\ lastProbe[1].ret = AllNegative(lastProbe[1].op)
        /\ result # <<>>
        /\ lastProbe[1].op = "connectivity" =>
              ~result[1].can_connect /\ result[1].http_status = 0
        /\ lastProbe[1].op = "transmission" =>
              ~result[1].can_send_data /\ ~result[1].can_receive_data
        /\ lastProbe[1].op = "headers" => ~result[1].headers_authentic
        /\ lastProbe[1].op = "variation" =>
              ~result[1].packet_size_variation /\ ~result[1].timing_variation

\* The fourth request of a variation probe raised after three that completed.
C4_Witness ==
    /\ lastProbe # <<>>
    /\ lastProbe[1].op = "variation"
    /\ lastProbe[1].exc
    /\ lastProbe[1].at = 4
    /\ lastProbe[1].ret = <<FALSE, FALSE>>

ReportWritten ==
    /\ pc = "done"
    /\ report # <<>>
    /\ Len(report[1].results) = Len(protocols)
    /\ report[1].results = [k \in DOMAIN results |-> to_dict(results[k])]

\* C5: whatever the probes of the profiles end in, the run terminates: the runner
\* passes every profile and the report is eventually written with all results.
C5_ReportEventuallyWritten == <>ReportWritten

\* Every profile of the full catalog failed and the report was written.
C5_Witness ==
    /\ ReportWritten
    /\ Len(results) = 9
    /\ \A i \in DOMAIN results : ~results[i].can_connect

TrueFlags(r) == {f \in SixFlags : r[f]}

\* The six flags summed in the reverse order
reverse_score(r) ==
    Sum(<< BoolInt(r.timing_variation), BoolInt(r.packet_size_variation),
           BoolInt(r.headers_authentic), BoolInt(r.can_receive_data),
           BoolInt(r.can_send_data), BoolInt(r.can_connect) >>)

\* C6: the mimicry score of every finalized result, and the score the summary
\* shows for it, is the number of its six flags that are true, lies in 0..6 and
\* is the same when the flags are summed in another order.
C6_ScoreCountsTrueFlags ==
    /\ \A i \in DOMAIN results :
        /\ mimicry_score(results[i]) = Cardinality(TrueFlags(results[i]))
        /\ mimicry_score(results[i]) \in 0..6
        /\ mimicry_score(results[i]) = reverse_score(results[i])
    /\ summary # <<>> =>
        /\ Len(summary[1].scores) = Len(results)
        /\ \A i \in DOMAIN results :
              summary[1].scores[i] = Cardinality(TrueFlags(results[i]))

\* The summary shows a score of 6 for a profile that passed every probe.
C6_Witness ==
    /\ summary # <<>>
    /\ Len(results) = 1
    /\ summary[1].scores[1] = 6
    /\ results[1].timing_variation
    /\ results[1].can_receive_data

\* A round-trip time rounded to a precision of one millisecond
RoundToPrecision(t) == (t + 500) \div 1000

Rounded(ts) == [k \in DOMAIN ts |-> RoundToPrecision(ts[k])]

VariationCompleted ==
    lastProbe # <<>> /\ lastProbe[1].op = "variation" /\ ~lastProbe[1].exc

\* C7: after a variation probe all of whose repetitions completed, size_variation
\* is true exactly when the response lengths hold more than 2 distinct values, and
\* timing_variation exactly when the round-trip times, rounded to the precision,
\* hold more than 2 distinct values.
C7_VariationThresholds ==
    VariationCompleted =>
        /\ Len(lastProbe[1].sizes) = VariationReps
        /\ lastProbe[1].ret[1] <=> (Distinct(lastProbe[1].sizes) > 2)
        /\ lastProbe[1].ret[2] <=> (Distinct(Rounded(lastProbe[1].times)) > 2)

WorkingIndices(rs) == {i \in DOMAIN rs : rs[i].can_connect /\ rs[i].can_send_data}

UnreachableIndices(rs) == {i \in DOMAIN rs : ~rs[i].can_connect}

\* C8: the written report's total_protocols is the length of its results array,
\* its working_protocols the number of results with can_connect and
\* can_send_data both true, so working_protocols <= total_protocols; 9 results of
\* which 3 are unreachable and 6 reachable and sending give working_protocols = 6.
C8_ReportMetadata ==
    report # <<>> =>
        LET meta == report[1].test_metadata
            rs == report[1].results
        IN  /\ meta.total_protocols = Len(rs)
            /\ meta.working_protocols = Cardinality(WorkingIndices(rs))
            /\ meta.working_protocols <= meta.total_protocols
            /\ ( /\ Len(rs) = 9
                 /\ Cardinality(UnreachableIndices(rs)) = 3
                 /\ Cardinality(WorkingIndices(rs)) = 6 )
               => meta.working_protocols = 6 /\ meta.total_protocols = 9

\* The report of a 9-profile run with 3 unreachable profiles and 6 working ones.
C8_Witness ==
    /\ report # <<>>
    /\ Len(report[1].results) = 9
    /\ Cardinality(UnreachableIndices(report[1].results)) = 3
    /\ report[1].test_metadata.working_protocols = 6

ExplicitFields(r) ==
    /\ DOMAIN r = ResultFields
    /\ \A f \in SixFlags : r[f] \in BOOLEAN
    /\ r.http_status \in Nat
    /\ r.response_time_ms \in Nat

\* The downstream probes (transmission, headers, variation) were not attempted.
NotAttempted(log) == \A k \in DOMAIN log : log[k].op = "connectivity"

DownstreamFailed(log) == \E k \in DOMAIN log : log[k].op # "connectivity" /\ log[k].failed

\* C9: every finalized result, in the list and in the report, has all its fields
\* with explicit values, and its error message is non-empty exactly when the
\* downstream probes were not attempted; a profile whose downstream probes were
\* attempted and failed has an empty error message.
C9_ErrorMessageMarksSkipped ==
    /\ \A i \in DOMAIN results :
        /\ ExplicitFields(results[i])
        /\ (results[i].error_message # None) <=> NotAttempted(probeLog[i])
        /\ DownstreamFailed(probeLog[i]) => results[i].error_message = None
    /\ report # <<>> =>
        \A i \in DOMAIN report[1].results :
            /\ ExplicitFields(report[1].results[i])
            /\ (report[1].results[i].error_message # None) <=> NotAttempted(probeLog[i])

\* A reachable profile whose transmission probe was attempted and failed, reported
\* with an empty error message.
C9_Witness ==
    /\ report # <<>>
    /\ Len(results) = 1
    /\ results[1].can_connect
    /\ probeLog[1][2].failed
    /\ report[1].results[1].error_message = None

AnyProbeFailed(log) == \E k \in DOMAIN log : log[k].failed

ClaimedSuccess == {200, 201, 204}

\* C11: every completed exchange counts as a success exactly when its status is
\* 200, 201 or 204: the connectivity probe reports reachable on those and records
\* the status as it came, the transmission probe reports can_send on those, and a
\* check of the verification script passes on those.
C11_SuccessStatusEverywhere ==
    /\ (lastProbe # <<>> /\ ~lastProbe[1].exc /\ lastProbe[1].op = "connectivity") =>
        /\ lastProbe[1].ret[1] <=> (lastProbe[1].ret[2] \in ClaimedSuccess)
        /\ result[1].http_status = lastProbe[1].ret[2]
        /\ result[1].can_connect = lastProbe[1].ret[1]
    /\ (lastProbe # <<>> /\ ~lastProbe[1].exc /\ lastProbe[1].op = "transmission") =>
        /\ lastProbe[1].ret[1] <=> (lastProbe[1].status \in ClaimedSuccess)
    /\ \A k \in DOMAIN vresults :
        vresults[k].status # 0 =>
            ((vresults[k].message = <<"Success">>) <=> (vresults[k].status \in ClaimedSuccess))

\* The four flags the quality analysis reads
QualityFlags ==
    {"can_connect", "can_send_data", "headers_authentic", "packet_size_variation"}

TrueQualityFlags(r) == Cardinality({f \in QualityFlags : r[f]})

BandOf(r) ==
    IF TrueQualityFlags(r) = 4 THEN "excellent"
    ELSE IF TrueQualityFlags(r) >= 2 THEN "good" ELSE "poor"

InBand(rs, band) == {i \in DOMAIN rs : BandOf(rs[i]) = band}

\* The bands the summary's three predicates put a result in
CountedIn(r) ==
    {b \in {"excellent", "good", "poor"} :
        \/ b = "excellent" /\ IsExcellent(r)
        \/ b = "good" /\ IsGood(r)
        \/ b = "poor" /\ IsPoor(r)}

SummaryPrinted == summary # <<>> /\ pc \in {"save", "done"}

\* C12: every result is counted in exactly one quality band, fixed by how many
\* of reachable, can_send, authentic, size_variation are true (4: excellent,
\* 2 or 3: good, fewer: poor); the three counts of the summary add up to the
\* number of results, and the band is the same whatever can_receive and
\* timing_variation are.
C12_QualityBands ==
    SummaryPrinted =>
        /\ summary[1].excellent = Cardinality(InBand(results, "excellent"))
        /\ summary[1].good = Cardinality(InBand(results, "good"))
        /\ summary[1].poor = Cardinality(InBand(results, "poor"))
        /\ summary[1].excellent + summary[1].good + summary[1].poor = Len(results)
        /\ \A i \in DOMAIN results : \A recv, timing \in BOOLEAN :
              CountedIn([results[i] EXCEPT !.can_receive_data = recv,
                                           !.timing_variation = timing])
                = {BandOf(results[i])}

\* A result with two of the four flags, can_receive and timing_variation both
\* true, counted as good.
C12_Witness ==
    /\ SummaryPrinted
    /\ summary[1].good = 1
    /\ \E i \in DOMAIN results :
          /\ TrueQualityFlags(results[i]) = 2
          /\ results[i].can_receive_data /\ results[i].timing_variation

HeadersProbed ==
    lastProbe # <<>> /\ lastProbe[1].op = "headers" /\ ~lastProbe[1].exc

\* Some expected token of the profile occurs in the headers, capitals ignored
TokenMatch(p, headers) ==
    \E k \in DOMAIN p.expected_headers : \E w \in headers :
        w.text = p.expected_headers[k]

\* C13: the header probe that got a response returns authentic exactly when
\* the response headers contain one of the profile's expected tokens, compared
\* without regard to case, or no token matches and the status is a success
\* status; a match makes it true on any status, and no match with a
\* non-success status makes it false.
C13_HeaderAuthenticity ==
    HeadersProbed =>
        LET matched == TokenMatch(protocols[idx], lastProbe[1].headers)
            success == lastProbe[1].status \in ClaimedSuccess
        IN  /\ lastProbe[1].ret[1] <=> (matched \/ (~matched /\ success))
            /\ matched => lastProbe[1].ret[1]
            /\ (~matched /\ ~success) => ~lastProbe[1].ret[1]
            /\ result[1].headers_authentic = lastProbe[1].ret[1]

\* A capitalised token of the profile in the headers of a 404 response, and the
\* probe answered authentic.
C13_Witness ==
    /\ HeadersProbed
    /\ lastProbe[1].status = 404
    /\ \E w \in lastProbe[1].headers :
          w.caps /\ w.text \in Range(protocols[idx].expected_headers)
    /\ lastProbe[1].ret[1]
    /\ result[1].headers_authentic

TransmissionProbed ==
    lastProbe # <<>> /\ lastProbe[1].op = "transmission" /\ ~lastProbe[1].exc

\* C14: the transmission probe takes can_send and can_receive from the one
\* response, each on its own: can_send iff the status is a success status,
\* can_receive iff the body is longer than 0 whatever the status; the result
\* records both, and a received body counts 1 in the mimicry score also when
\* the send failed.
C14_ReceiveIndependentOfStatus ==
    /\ TransmissionProbed =>
        /\ lastProbe[1].ret[1] <=> (lastProbe[1].status \in ClaimedSuccess)
        /\ lastProbe[1].ret[2] <=> (lastProbe[1].content_len > 0)
        /\ result[1].can_send_data = lastProbe[1].ret[1]
        /\ result[1].can_receive_data = lastProbe[1].ret[2]
        /\ mimicry_score(result[1])
              = 1 + BoolInt(lastProbe[1].status \in ClaimedSuccess)
                  + BoolInt(lastProbe[1].content_len > 0)
    /\ SummaryPrinted =>
        \A i \in DOMAIN results :
            (results[i].can_receive_data /\ ~results[i].can_send_data) =>
                summary[1].scores[i]
                  = 1 + Cardinality(TrueFlags(results[i]) \ {"can_receive_data"})

\* A 404 or 500 with a body: can_send false, can_receive true, score 2 with
\* the reachable flag.
C14_Witness ==
    /\ TransmissionProbed
    /\ lastProbe[1].status \notin ClaimedSuccess
    /\ lastProbe[1].content_len > 0
    /\ lastProbe[1].ret = <<FALSE, TRUE>>
    /\ ~result[1].can_send_data /\ result[1].can_receive_data
    /\ mimicry_score(result[1]) = 2

\* C15: whenever run_all_tests has returned, whichever invocation it was, the
\* result list holds exactly one entry per catalog profile, in catalog order,
\* and a report written from it counts as many protocols as the catalog has.
C15_ResultListRunScoped ==
    /\ Returned =>
        /\ Len(results) = Len(protocols)
        /\ \A i \in DOMAIN results : results[i].protocol_name = protocols[i].name
    /\ (pc = "done" /\ report # <<>>) =>
        /\ report[1].test_metadata.total_protocols = Len(protocols)
        /\ Len(report[1].results) = Len(protocols)

\* The second invocation has returned and its report is written.
C15_SecondRunReported == runs = 2 /\ pc = "done" /\ Len(protocols) > 0

\* The profiles finalized so far: test_protocol returned and its result is in
\* the result list.
Finalized == idx - 1

\* C16: when an abort has ended the run, at whatever point, a report has been
\* written and it holds exactly the results finalized by then, in catalog
\* order. (An aborted process takes no further step: what is not written then
\* is never written.)
C16_AbortFlushesFinalized ==
    pc = "aborted" =>
        /\ report # <<>>
        /\ Len(report[1].results) = Finalized
        /\ \A k \in 1..Finalized :
              /\ report[1].results[k] = to_dict(results[k])
              /\ report[1].results[k].protocol_name = protocols[k].name

\* Aborted inside the transmission probe of the third profile, two finalized.
C16_AbortedMidRun ==
    pc = "aborted" /\ Finalized = 2 /\ Len(results) = 2 /\ phase = "transmission"

\* Credentials that are missing or cannot be valid: no token at all, or the
\* placeholder text.
BadCredential(token) == token \in {"", "YOUR_JWT_TOKEN_HERE"}

\* C17: with a missing or invalid credential the verification script aborts
\* before any probe: it issues no request and records no per-protocol result.
C17_ConfigErrorFatalBeforeProbes ==
    BadCredential(jwt) =>
        /\ vsent = 0
        /\ vresults = <<>>
        /\ vpc \in {"off", "start", "returned"}

\* The script as shipped, token empty, has sent all four requests.
C17_EmptyTokenProbed ==
    /\ jwt = "" /\ vpc = "done" /\ vsent = 4
    /\ \A k \in DOMAIN vresults : vresults[k].authorization = <<"Bearer", "">>

====
